---- MODULE Spec2Model ----
(***************************************************************************)
(* Ping-pong game core: the usePingPong store (match state machine, frame  *)
(* loop, ball physics, computer paddle) and the usePowerUps store (spawned *)
(* pickups, active effects), as written in                                 *)
(* src/client/src/lib/stores/usePowerUps.tsx.                              *)
(*                                                                         *)
(* Numbers.  The stores compute with IEEE doubles; the model computes with *)
(* integers.  Lengths are whole pixels on a small field (the dimension     *)
(* fields of the store are instantiated with small values, the code being  *)
(* parametric in them), velocities are thousandths of a pixel per frame    *)
(* (a ball's position keeps the whole pixels of each move), the            *)
(* power-up and difficulty multipliers are hundredths (160 = 1.6), times   *)
(* are whole seconds, and cos/sin are read from a table in thousandths     *)
(* indexed by the angle in units of pi/16.                                 *)
(*                                                                         *)
(* Stores.  A zustand store holds one immutable state object.              *)
(* set(fn) calls fn(current), and then merges the object fn returns over   *)
(* the state that is current AFTER fn ran.  A set() nested inside fn       *)
(* therefore survives only in the keys fn does not return.  Each handler   *)
(* below is an operator from store states to store states, so that the     *)
(* nested calls compose exactly as in the code.                            *)
(***************************************************************************)
EXTENDS Integers, Sequences, FiniteSets, TLC

(* ---------------- bounds of the model ---------------- *)
MaxFrames == 4
MaxScore == 5
MaxPending == 1
MaxTime == 10
MaxSpawns == 1
MaxLongScore == 15
MaxPickups == 3
MaxClock == 16
MaxRally == 9

MaxMatch == 30

MaxOverlap == 2

(* ---------------- store fields that never change in the model ------------ *)
canvasWidth == 16
canvasHeight == 12
paddleWidth == 1
paddleHeight == 4
ballSize == 2
pointsToWin == 5
initialBallSpeed == 4
ballSpeedIncrement == 1
maxLevel == 5
computerBaseSpeed == 3
spawnInterval == 8
maxPowerUps == 2
powerUpRadius == 1
spawnMargin == 1
spawnCenterMargin == 2
deadzone == 2
jitterPeriod == 30

(* ---------------- arithmetic helpers ---------------- *)
Abs(n) == IF n < 0 THEN -n ELSE n

Min(a, b) == IF a <= b THEN a ELSE b

Max(a, b) == IF a >= b THEN a ELSE b

\* a / b rounded toward zero (b > 0)
TruncDiv(a, b) == IF a >= 0 THEN a \div b ELSE -((-a) \div b)

\* a / b rounded to the nearest integer, halves away from zero (b > 0)
RoundDiv(a, b) == IF a >= 0 THEN (2 * a + b) \div (2 * b) ELSE -((2 * (-a) + b) \div (2 * b))

\* the largest r in lo..hi with r * r <= n, by bisection
RECURSIVE SqrtSearch(_, _, _)
SqrtBisect(n, lo, hi, mid) ==
  IF mid * mid <= n THEN SqrtSearch(n, mid, hi) ELSE SqrtSearch(n, lo, mid - 1)

SqrtSearch(n, lo, hi) ==
  IF lo >= hi THEN lo ELSE SqrtBisect(n, lo, hi, (lo + hi + 1) \div 2)

SqrtRound(n, r) == IF n - r * r > r THEN r + 1 ELSE r

\* Math.sqrt, rounded to the nearest integer (n < 2^31)
Sqrt(n) == SqrtRound(n, SqrtSearch(n, 0, 46340))

\* Math.cos / Math.sin of a * pi/16, a in -4..4, in thousandths
CosTable == <<1000, 981, 924, 831, 707>>

SinTable == <<0, 195, 383, 556, 707>>

Cos(a) == CosTable[Abs(a) + 1]

Sin(a) == IF a < 0 THEN -SinTable[Abs(a) + 1] ELSE SinTable[Abs(a) + 1]

(* ---------------- usePowerUps: types and configuration ---------------- *)
PowerUpType == {"SPEED_BOOST", "MULTI_BALL", "PADDLE_EXTENDER", "SLOW_MOTION", "INVISIBILITY", "SHRINK_OPPONENT"}

PowerUpTarget == {"PLAYER", "COMPUTER", "BALL", "GAME"}

powerUpConfigs ==
  [t \in PowerUpType |->
     CASE t = "SPEED_BOOST"     -> [duration |-> 7,  target |-> "BALL",     probability |-> 15]
       [] t = "MULTI_BALL"      -> [duration |-> 10, target |-> "GAME",     probability |-> 10]
       [] t = "PADDLE_EXTENDER" -> [duration |-> 8,  target |-> "PLAYER",   probability |-> 20]
       [] t = "SLOW_MOTION"     -> [duration |-> 6,  target |-> "BALL",     probability |-> 15]
       [] t = "INVISIBILITY"    -> [duration |-> 5,  target |-> "BALL",     probability |-> 10]
       [] t = "SHRINK_OPPONENT" -> [duration |-> 8,  target |-> "COMPUTER", probability |-> 15]]

VARIABLES pingPong, powerUps, now, pendingResets, spawnCount

vars == <<pingPong, powerUps, now, pendingResets, spawnCount>>

(* ---------------- usePowerUps: queries ---------------- *)
\* an isActive that counts every entry still in the list
isActiveUnswept(p, t, type, target) ==
  \E i \in 1..Len(p.activePowerUps) :
     /\ p.activePowerUps[i].type = type
     /\ p.activePowerUps[i].target = target

\* isActive(type, target), evaluated at wall-clock time t on store state p
isActive(p, t, type, target) ==
  \E i \in 1..Len(p.activePowerUps) :
     /\ p.activePowerUps[i].type = type
     /\ p.activePowerUps[i].target = target
     /\ p.activePowerUps[i].endTime > t

\* in hundredths
getBallSpeedMultiplier(p, t) ==
  LET m1 == IF isActive(p, t, "SPEED_BOOST", "BALL") THEN 160 ELSE 100
  IN IF isActive(p, t, "SLOW_MOTION", "BALL") THEN (m1 * 60) \div 100 ELSE m1

getPlayerPaddleHeightMultiplier(p, t) ==
  LET m1 == IF isActive(p, t, "PADDLE_EXTENDER", "PLAYER") THEN 150 ELSE 100
  IN IF isActive(p, t, "SHRINK_OPPONENT", "PLAYER") THEN (m1 * 60) \div 100 ELSE m1

getComputerPaddleHeightMultiplier(p, t) ==
  LET m1 == IF isActive(p, t, "PADDLE_EXTENDER", "COMPUTER") THEN 150 ELSE 100
  IN IF isActive(p, t, "SHRINK_OPPONENT", "COMPUTER") THEN (m1 * 60) \div 100 ELSE m1

getBallOpacity(p, t) == IF isActive(p, t, "INVISIBILITY", "BALL") THEN 30 ELSE 100

(* ---------------- usePowerUps: operations ---------------- *)
enablePowerUps(p) == [p EXCEPT !.isPowerUpSpawningEnabled = TRUE]

\* a disablePowerUps that leaves the active effects in place
disablePowerUpsKeepEffects(p) ==
  [p EXCEPT !.isPowerUpSpawningEnabled = FALSE,
            !.spawnedPowerUps = <<>>]

disablePowerUps(p) ==
  [p EXCEPT !.isPowerUpSpawningEnabled = FALSE,
            !.spawnedPowerUps = <<>>,
            !.activePowerUps = <<>>]

\* the do-while of spawnPowerUp leaves (x, y) inside the margins and outside
\* the centre square
SpawnPositionOk(x, y) ==
  /\ x >= spawnMargin /\ x <= canvasWidth - spawnMargin
  /\ y >= spawnMargin /\ y <= canvasHeight - spawnMargin
  /\ ~(Abs(x - canvasWidth \div 2) < spawnCenterMargin /\ Abs(y - canvasHeight \div 2) < spawnCenterMargin)

\* a spawnPowerUp whose capacity test lets one pickup too many through
spawnPowerUpOverCap(p, t, selectedType, x, y, id) ==
  IF ~p.isPowerUpSpawningEnabled \/ Len(p.spawnedPowerUps) > maxPowerUps
  THEN p
  ELSE IF t >= p.nextSpawnTime
       THEN [p EXCEPT !.spawnedPowerUps = Append(@, [id |-> id, type |-> selectedType, x |-> x, y |-> y]),
                      !.nextSpawnTime = t + spawnInterval]
       ELSE p

\* a spawnPowerUp that does not wait for nextSpawnTime
spawnPowerUpAnyTime(p, t, selectedType, x, y, id) ==
  IF ~p.isPowerUpSpawningEnabled \/ Len(p.spawnedPowerUps) >= maxPowerUps
  THEN p
  ELSE [p EXCEPT !.spawnedPowerUps = Append(@, [id |-> id, type |-> selectedType, x |-> x, y |-> y]),
                 !.nextSpawnTime = t + spawnInterval]

\* spawnPowerUp at time t; selectedType, x, y and id are the random draws
spawnPowerUp(p, t, selectedType, x, y, id) ==
  IF ~p.isPowerUpSpawningEnabled \/ Len(p.spawnedPowerUps) >= maxPowerUps
  THEN p
  ELSE IF t >= p.nextSpawnTime
       THEN [p EXCEPT !.spawnedPowerUps = Append(@, [id |-> id, type |-> selectedType, x |-> x, y |-> y]),
                      !.nextSpawnTime = t + spawnInterval]
       ELSE p

HasSpawned(p, id) == \E i \in 1..Len(p.spawnedPowerUps) : p.spawnedPowerUps[i].id = id

SpawnedById(p, id) ==
  p.spawnedPowerUps[CHOOSE i \in 1..Len(p.spawnedPowerUps) :
                       /\ p.spawnedPowerUps[i].id = id
                       /\ \A j \in 1..(i - 1) : p.spawnedPowerUps[j].id # id]

\* an effective target that turns PLAYER into COMPUTER but not back
effectiveTargetOneWay(target, isPlayerCollecting) ==
  IF ~isPlayerCollecting /\ target = "PLAYER" THEN "COMPUTER" ELSE target

\* Step 3 of collectPowerUp
effectiveTarget(target, isPlayerCollecting) ==
  IF ~isPlayerCollecting
  THEN IF target = "PLAYER" THEN "COMPUTER"
       ELSE IF target = "COMPUTER" THEN "PLAYER"
       ELSE target
  ELSE target

\* a collectPowerUp that keeps the earlier effect of the same type and target
collectPowerUpAppend(p, t, id, isPlayerCollecting) ==
  IF ~HasSpawned(p, id)
  THEN p
  ELSE LET collected == SpawnedById(p, id)
           config == powerUpConfigs[collected.type]
           newActive == [type |-> collected.type,
                         endTime |-> t + config.duration,
                         target |-> effectiveTarget(config.target, isPlayerCollecting)]
           IsNotId(s) == s.id # id
       IN [p EXCEPT !.spawnedPowerUps = SelectSeq(@, IsNotId),
                    !.activePowerUps = Append(@, newActive)]

\* a collectPowerUp that adds the duration to the expiry the pair already has
collectPowerUpStacking(p, t, id, isPlayerCollecting) ==
  IF ~HasSpawned(p, id)
  THEN p
  ELSE LET collected == SpawnedById(p, id)
           config == powerUpConfigs[collected.type]
           target == effectiveTarget(config.target, isPlayerCollecting)
           IsSame(a) == a.type = collected.type /\ a.target = target
           IsOther(a) == ~IsSame(a)
           earlier == SelectSeq(p.activePowerUps, IsSame)
           newActive == [type |-> collected.type,
                         endTime |-> (IF earlier = <<>> THEN t ELSE earlier[1].endTime) + config.duration,
                         target |-> target]
           IsNotId(s) == s.id # id
       IN [p EXCEPT !.spawnedPowerUps = SelectSeq(@, IsNotId),
                    !.activePowerUps = Append(SelectSeq(@, IsOther), newActive)]

\* a collectPowerUp that takes the first pickup on the field when the id is
\* not found
collectPowerUpFirst(p, t, id, isPlayerCollecting) ==
  IF ~HasSpawned(p, id) /\ p.spawnedPowerUps = <<>>
  THEN p
  ELSE LET collected == IF HasSpawned(p, id) THEN SpawnedById(p, id) ELSE p.spawnedPowerUps[1]
           config == powerUpConfigs[collected.type]
           newActive == [type |-> collected.type,
                         endTime |-> t + config.duration,
                         target |-> effectiveTarget(config.target, isPlayerCollecting)]
           IsOther(a) == ~(a.type = newActive.type /\ a.target = newActive.target)
           IsNotId(s) == s.id # collected.id
       IN [p EXCEPT !.spawnedPowerUps = SelectSeq(@, IsNotId),
                    !.activePowerUps = Append(SelectSeq(@, IsOther), newActive)]

\* the store state after collectPowerUp(id, isPlayerCollecting) at time t
collectPowerUp(p, t, id, isPlayerCollecting) ==
  IF ~HasSpawned(p, id)
  THEN p
  ELSE LET collected == SpawnedById(p, id)
           config == powerUpConfigs[collected.type]
           newActive == [type |-> collected.type,
                         endTime |-> t + config.duration,
                         target |-> effectiveTarget(config.target, isPlayerCollecting)]
           IsOther(a) == ~(a.type = newActive.type /\ a.target = newActive.target)
           IsNotId(s) == s.id # id
       IN [p EXCEPT !.spawnedPowerUps = SelectSeq(@, IsNotId),
                    !.activePowerUps = Append(SelectSeq(@, IsOther), newActive)]

\* what collectPowerUp returns: the type, or "null"
collectPowerUpReturn(p, id) == IF HasSpawned(p, id) THEN SpawnedById(p, id).type ELSE "null"

\* a checkExpiredPowerUps that keeps the effects expiring at this very moment
checkExpiredPowerUpsKeepDue(p, t) ==
  LET Live(a) == a.endTime >= t
      updated == SelectSeq(p.activePowerUps, Live)
  IN IF Len(updated) # Len(p.activePowerUps)
     THEN [p EXCEPT !.activePowerUps = updated]
     ELSE p

checkExpiredPowerUps(p, t) ==
  LET Live(a) == a.endTime > t
      updated == SelectSeq(p.activePowerUps, Live)
  IN IF Len(updated) # Len(p.activePowerUps)
     THEN [p EXCEPT !.activePowerUps = updated]
     ELSE p

(* ---------------- usePingPong: balls ---------------- *)
halfBall == ballSize \div 2

centerX == canvasWidth \div 2

centerY == canvasHeight \div 2

IsMain(ball) == ball.isMainBall

IsExtra(ball) == ~ball.isMainBall

HasMainBall(bs) == \E i \in 1..Len(bs) : bs[i].isMainBall

\* Array.prototype.find(ball => ball.isMainBall); applied only when one exists
FindMainBall(bs) == bs[CHOOSE i \in 1..Len(bs) : bs[i].isMainBall /\ \A j \in 1..(i - 1) : ~bs[j].isMainBall]

createMainBall(g) ==
  [id |-> 0, x |-> g.ballX, y |-> g.ballY, speedX |-> g.ballSpeedX, speedY |-> g.ballSpeedY, isMainBall |-> TRUE]

\* the i-th extra ball; dir in {1,-1}, mag in 3..7 and vy in -3..3 are the random draws
ExtraBall(i, draw) ==
  [id |-> i, x |-> centerX, y |-> centerY, speedX |-> draw.dir * draw.mag * 1000, speedY |-> draw.vy * 1000,
   isMainBall |-> FALSE]

\* addExtraBalls(count) with the random draws of each new ball in draws (Len(draws) = count)
addExtraBalls(g, draws) ==
  LET withMain == IF HasMainBall(g.balls) THEN g.balls ELSE Append(g.balls, createMainBall(g))
  IN [g EXCEPT !.balls = withMain \o [i \in 1..Len(draws) |-> ExtraBall(i, draws[i])]]

removeExtraBalls(g) ==
  [g EXCEPT !.balls = IF HasMainBall(g.balls) THEN <<FindMainBall(g.balls)>> ELSE <<createMainBall(g)>>]

(* ---------------- usePingPong: ball physics ---------------- *)
\* the ball inside the vertical window of a paddle centred at paddleY whose
\* effective height is paddleHeight * mult / 100
\* a paddle test that reaches a tenth of the plain paddle height past each end
InPaddleWindowLoose(newY, paddleY, mult) ==
  /\ 200 * newY >= 200 * paddleY - paddleHeight * (mult + 10)
  /\ 200 * newY <= 200 * paddleY + paddleHeight * (mult + 10)

InPaddleWindow(newY, paddleY, mult) ==
  /\ 200 * newY >= 200 * paddleY - paddleHeight * mult
  /\ 200 * newY <= 200 * paddleY + paddleHeight * mult

\* normalizedIntersection * 4: the bounce angle in units of pi/16
BounceAngle(newY, paddleY, mult) == RoundDiv(800 * (paddleY - newY), paddleHeight * mult)

\* |normalizedIntersection| <= 1, on the exact quotient
NormalizedInRange(newY, paddleY, mult) == Abs(200 * (paddleY - newY)) <= paddleHeight * mult

\* newX = ball.x + ball.speedX * multiplier, newY likewise
moveBall(ball, ballSpeedMultiplier) ==
  [ball EXCEPT !.x = @ + TruncDiv(ball.speedX * ballSpeedMultiplier, 100000),
               !.y = @ + TruncDiv(ball.speedY * ballSpeedMultiplier, 100000)]

\* collision with the top and bottom walls: b is the ball at its new position
wallCollision(b) ==
  IF b.y - halfBall <= 0 \/ b.y + halfBall >= canvasHeight
  THEN [b EXCEPT !.speedY = -@]
  ELSE b

\* a bounce that keeps the speed the ball came with
newSpeedKept(b) == Sqrt(b.speedX * b.speedX + b.speedY * b.speedY)

\* currentSpeed + ballSpeedIncrement
newSpeed(b) == Sqrt(b.speedX * b.speedX + b.speedY * b.speedY) + 1000 * ballSpeedIncrement

\* the bounce off the player paddle (left), at bounce angle a
playerBounce(b, a) ==
  LET raw == RoundDiv(newSpeed(b) * Cos(a), 1000)
  IN [b EXCEPT !.speedX = IF raw <= 0 THEN Abs(raw) ELSE raw,
               !.speedY = RoundDiv(newSpeed(b) * (-Sin(a)), 1000),
               !.x = paddleWidth + halfBall]

\* a bounce off the computer paddle that sends the ball on to the right
computerBounceOnward(b, a) ==
  [b EXCEPT !.speedX = RoundDiv(newSpeed(b) * Cos(a), 1000),
            !.speedY = RoundDiv(newSpeed(b) * (-Sin(a)), 1000),
            !.x = canvasWidth - paddleWidth - halfBall]

\* the bounce off the computer paddle (right), at bounce angle a
computerBounce(b, a) ==
  LET raw == -RoundDiv(newSpeed(b) * Cos(a), 1000)
  IN [b EXCEPT !.speedX = IF raw >= 0 THEN -Abs(raw) ELSE raw,
               !.speedY = RoundDiv(newSpeed(b) * (-Sin(a)), 1000),
               !.x = canvasWidth - paddleWidth - halfBall]

HitsPlayerPaddle(g, mult, b) ==
  b.x - halfBall <= paddleWidth /\ InPaddleWindow(b.y, g.playerPaddleY, mult)

HitsComputerPaddle(g, mult, b) ==
  b.x + halfBall >= canvasWidth - paddleWidth /\ InPaddleWindow(b.y, g.computerPaddleY, mult)

playerPaddleCollision(g, mult, b) ==
  IF HitsPlayerPaddle(g, mult, b) THEN playerBounce(b, BounceAngle(b.y, g.playerPaddleY, mult)) ELSE b

computerPaddleCollision(g, mult, b) ==
  IF HitsComputerPaddle(g, mult, b) THEN computerBounce(b, BounceAngle(b.y, g.computerPaddleY, mult)) ELSE b

updateBallPositions(g, p, t, ball, ballSpeedMultiplier) ==
  computerPaddleCollision(g, getComputerPaddleHeightMultiplier(p, t),
    playerPaddleCollision(g, getPlayerPaddleHeightMultiplier(p, t),
      wallCollision(moveBall(ball, ballSpeedMultiplier))))

OffLeft(ball) == ball.x - halfBall <= 0

OffRight(ball) == ball.x + halfBall >= canvasWidth

OnField(ball) == ~OffLeft(ball) /\ ~OffRight(ball)

(* ---------------- usePingPong: difficulty ---------------- *)
\* a levelUp that leaves the computer speed multiplier alone
levelUpKeepSpeed(g) ==
  IF g.currentLevel >= maxLevel
  THEN g
  ELSE [g EXCEPT !.currentLevel = @ + 1,
                 !.predictionAccuracy = Min(95, @ + 10)]

\* a levelUp without the cap at maxLevel
levelUpUncapped(g) ==
  [g EXCEPT !.currentLevel = @ + 1,
            !.computerSpeedMultiplier = @ + 25,
            !.predictionAccuracy = Min(95, @ + 10)]

\* a levelUp that starts over at level 1 once the maximum is passed
levelUpWrap(g) ==
  IF g.currentLevel >= maxLevel
  THEN [g EXCEPT !.currentLevel = 1, !.computerSpeedMultiplier = 100, !.predictionAccuracy = 50]
  ELSE [g EXCEPT !.currentLevel = @ + 1,
                 !.computerSpeedMultiplier = @ + 25,
                 !.predictionAccuracy = Min(95, @ + 10)]

levelUp(g) ==
  IF g.currentLevel >= maxLevel
  THEN g
  ELSE [g EXCEPT !.currentLevel = @ + 1,
                 !.computerSpeedMultiplier = @ + 25,
                 !.predictionAccuracy = Min(95, @ + 10)]

difficultySettings ==
  <<[speedMultiplier |-> 100, predictionAccuracy |-> 50],
    [speedMultiplier |-> 125, predictionAccuracy |-> 60],
    [speedMultiplier |-> 150, predictionAccuracy |-> 70],
    [speedMultiplier |-> 175, predictionAccuracy |-> 85],
    [speedMultiplier |-> 200, predictionAccuracy |-> 95]>>

setDifficultyLevel(g, level) ==
  [g EXCEPT !.currentLevel = level,
            !.computerSpeedMultiplier = difficultySettings[level].speedMultiplier,
            !.predictionAccuracy = difficultySettings[level].predictionAccuracy]

getComputerPaddleSpeed(g) == TruncDiv(computerBaseSpeed * g.computerSpeedMultiplier, 100)

(* ---------------- usePingPong: match operations ---------------- *)
\* initialize(), on mount and on every window resize, with the window in the
\* size class the dimensions above belong to: the dimension fields keep their
\* values, both paddles and the legacy ball position go to the centre, and the
\* legacy ballSpeedX becomes initialBallSpeed; balls is not touched
initialize(g) ==
  [g EXCEPT !.playerPaddleY = centerY, !.computerPaddleY = centerY,
            !.ballX = centerX, !.ballY = centerY,
            !.ballSpeedX = 1000 * initialBallSpeed]

\* an updatePlayerPaddle that stops the paddle at the bottom only
updatePlayerPaddleBottomOnly(g, y) ==
  [g EXCEPT !.playerPaddleY = Min(canvasHeight - paddleHeight \div 2, y)]

\* updatePlayerPaddle(y), y a position in pixels
updatePlayerPaddle(g, y) ==
  [g EXCEPT !.playerPaddleY = Max(paddleHeight \div 2, Min(canvasHeight - paddleHeight \div 2, y))]

\* a resetBall that relaunches the legacy ball fields only
resetBallLegacyOnly(g, direction, angle) ==
  [g EXCEPT !.ballX = centerX, !.ballY = centerY,
            !.ballSpeedX = initialBallSpeed * direction * Cos(angle),
            !.ballSpeedY = initialBallSpeed * Sin(angle)]

\* resetBall; direction in {1,-1} and angle (units of pi/16, within -2..2,
\* i.e. +-22.5 degrees) are the random draws
resetBall(g, direction, angle) ==
  LET newBallSpeedX == initialBallSpeed * direction * Cos(angle)
      newBallSpeedY == initialBallSpeed * Sin(angle)
      mainBall == [id |-> 0, x |-> centerX, y |-> centerY,
                   speedX |-> newBallSpeedX, speedY |-> newBallSpeedY, isMainBall |-> TRUE]
  IN [g EXCEPT !.ballX = centerX, !.ballY = centerY,
               !.ballSpeedX = newBallSpeedX, !.ballSpeedY = newBallSpeedY,
               !.balls = <<mainBall>>]

\* a win test that needs one point more
reachesPointsToWinLate(score) == score > pointsToWin

\* the win test of scorePoint
reachesPointsToWin(score) == score >= pointsToWin

\* scorePoint(player): the two stores afterwards, and whether the deferred
\* resetBall was scheduled.  levelUp() is a nested set whose keys the updater
\* does not return, so it survives the merge.
scorePoint(g, p, player) ==
  LET playerScore == IF player = "player" THEN g.playerScore + 1 ELSE g.playerScore
      computerScore == IF player = "player" THEN g.computerScore ELSE g.computerScore + 1
      g1 == IF player = "player" /\ playerScore > 0 /\ playerScore % 3 = 0 THEN levelUp(g) ELSE g
      won == IF player = "player" THEN reachesPointsToWin(playerScore) ELSE reachesPointsToWin(computerScore)
      isGameOver == g.isGameOver \/ won
  IN [g |-> [g1 EXCEPT !.playerScore = playerScore,
                       !.computerScore = computerScore,
                       !.isGameOver = isGameOver,
                       !.winner = IF won THEN player ELSE g.winner,
                       !.ballX = centerX, !.ballY = centerY,
                       !.ballSpeedX = 0, !.ballSpeedY = 0],
      p |-> IF won THEN disablePowerUps(p) ELSE p,
      timer |-> ~isGameOver]

(* ---------------- usePingPong: computer paddle ---------------- *)
\* randomFactor, in hundredths of a pixel
randomFactor(g) == IF g.currentLevel = 1 THEN 3000 ELSE Max(0, (100 - g.predictionAccuracy) * 20)

\* a draw of Math.random() * randomFactor - randomFactor / 2 (whole pixels)
JitterOk(g, jitter) == IF randomFactor(g) > 0 THEN 200 * Abs(jitter) <= randomFactor(g) ELSE jitter = 0

\* !state.lastRandomOffset: null or 0
OffsetFalsy(off) == off = <<>> \/ off = <<0>>

\* the clamped target of the projection, or nan |-> TRUE when the quotient
\* (canvasWidth - x) / speedX and its product with speedY is NaN; a division of
\* a non-zero numerator by zero is +-Infinity, which the clamp maps to a bound
computerTarget(g, nbx, nby, nsx, nsy, randomOffset) ==
  LET lo == paddleHeight \div 2
      hi == canvasHeight - paddleHeight \div 2
      num == nsy * (canvasWidth - nbx) * g.predictionAccuracy
      sgn == IF (nsy > 0) = (canvasWidth - nbx > 0) THEN 1 ELSE -1
  IN IF nsx = 0
     THEN IF nsy = 0 \/ canvasWidth - nbx = 0
          THEN [nan |-> TRUE, y |-> 0]
          ELSE [nan |-> FALSE, y |-> IF sgn > 0 THEN hi ELSE lo]
     ELSE LET predictedY == nby + (IF nsx > 0 THEN TruncDiv(num, nsx * 100) ELSE TruncDiv(-num, (-nsx) * 100))
          IN [nan |-> FALSE, y |-> Max(lo, Min(hi, predictedY + randomOffset))]

\* a computer paddle that goes to its target in one frame
moveComputerPaddleJump(g, target) ==
  IF target.nan \/ Abs(target.y - g.computerPaddleY) <= deadzone
  THEN g.computerPaddleY
  ELSE target.y

moveComputerPaddle(g, target) ==
  LET speed == getComputerPaddleSpeed(g)
      y == g.computerPaddleY
  IN IF target.nan
     THEN y
     ELSE IF Abs(target.y - y) > deadzone
          THEN IF target.y > y THEN Min(target.y, y + speed)
               ELSE IF target.y < y THEN Max(target.y, y - speed)
               ELSE y
          ELSE y

(* ---------------- usePingPong: the frame ---------------- *)
Running(g) == g.isGameStarted /\ ~g.isGameOver /\ ~g.isPaused

\* the balls the updater moves: the snapshot's array, after the push of a main
\* ball into an empty array
stateBalls(g) == IF Len(g.balls) = 0 THEN <<createMainBall(g)>> ELSE g.balls

\* state.balls.map(ball => state.updateBallPositions(ball, ballSpeedMultiplier))
updatedBalls(g, p, t) ==
  [i \in 1..Len(stateBalls(g)) |->
     updateBallPositions(g, p, t, stateBalls(g)[i], getBallSpeedMultiplier(p, t))]

\* the credit of a lost main ball with the sides exchanged
scoringPlayerSwapped(ball) == IF OffLeft(ball) THEN "player" ELSE "computer"

\* which side a lost main ball credits
scoringPlayer(ball) == IF OffLeft(ball) THEN "computer" ELSE "player"

\* the off-field test that makes a frame a scoring event
shouldScore(g, ball) == ball.isMainBall /\ ~OnField(ball) /\ Running(g)

\* the legacy ball fields: the moved main ball's, or unchanged without one
legacyBall(g, moved) ==
  IF HasMainBall(moved)
  THEN [x |-> FindMainBall(moved).x, y |-> FindMainBall(moved).y,
        speedX |-> FindMainBall(moved).speedX, speedY |-> FindMainBall(moved).speedY]
  ELSE [x |-> g.ballX, y |-> g.ballY, speedX |-> g.ballSpeedX, speedY |-> g.ballSpeedY]

\* the random offset this frame uses: resampled every jitterPeriod frames or
\* when the stored one is null or 0
frameOffset(g, jitter) ==
  IF g.ballSpeedX > 0 /\ (g.frameCount % jitterPeriod = 0 \/ OffsetFalsy(g.lastRandomOffset))
  THEN <<IF randomFactor(g) > 0 THEN jitter ELSE 0>>
  ELSE g.lastRandomOffset

\* the computer paddle after the frame; nb is the legacy ball of the frame
newComputerPaddleY(g, nb, offset) ==
  moveComputerPaddle(g, IF g.ballSpeedX > 0
                        THEN computerTarget(g, nb.x, nb.y, nb.speedX, nb.speedY, offset[1])
                        ELSE [nan |-> FALSE, y |-> g.computerPaddleY])

\* the nested set() of the multi-ball check: the store state it leaves
multiBallCheck(g, p, t, draws) ==
  IF isActive(p, t, "MULTI_BALL", powerUpConfigs["MULTI_BALL"].target)
  THEN (IF Len(g.balls) <= 1 THEN addExtraBalls(g, draws) ELSE g)
  ELSE (IF Len(g.balls) > 1 THEN removeExtraBalls(g) ELSE g)

\* whether the multi-ball check called set()
NestedSet(g, p, t) ==
  IF isActive(p, t, "MULTI_BALL", powerUpConfigs["MULTI_BALL"].target)
  THEN Len(g.balls) <= 1
  ELSE Len(g.balls) > 1

\* the merge of the object the updater returns over the store state s1 that the
\* nested set() left; g is the snapshot the updater was handed, moved its balls
\* after updateBallPositions, nb the legacy ball, offset the frame's offset.
\* The updater reads state.balls of the snapshot and returns `balls`, so what
\* addExtraBalls / removeExtraBalls stored is overwritten.  The assignment
\* state.lastRandomOffset = ... mutates the snapshot object, which is still the
\* store state only if no nested set() replaced it.
frameState(g, s1, nested, moved, nb, offset) ==
  [s1 EXCEPT !.balls = SelectSeq(moved, OnField),
             !.ballX = nb.x, !.ballY = nb.y,
             !.ballSpeedX = nb.speedX, !.ballSpeedY = nb.speedY,
             !.computerPaddleY = newComputerPaddleY(g, nb, offset),
             !.frameCount = g.frameCount + 1,
             !.lastRandomOffset = IF nested THEN g.lastRandomOffset ELSE offset]

\* the scoring after the set(): g2 is the store state the updater left
frameScoring(g, g2, p, moved) ==
  IF HasMainBall(moved) /\ shouldScore(g, FindMainBall(moved))
  THEN scorePoint(g2, p, scoringPlayer(FindMainBall(moved)))
  ELSE [g |-> g2, p |-> p, timer |-> FALSE]

frameWith(g, p, t, draws, jitter, moved) ==
  frameScoring(g,
               frameState(g, multiBallCheck(g, p, t, draws), NestedSet(g, p, t), moved,
                          legacyBall(g, moved), frameOffset(g, jitter)),
               p, moved)

\* updateGame(): the two stores afterwards and whether a resetBall was scheduled
updateGame(g, p, t, draws, jitter) == frameWith(g, p, t, draws, jitter, updatedBalls(g, p, t))

\* a gameLoop that runs updateGame in every display frame
gameLoopAlways(g, p, t, draws, jitter) == updateGame(g, p, t, draws, jitter)

\* gameLoop(): one display frame; updateGame() runs only in a running match
gameLoop(g, p, t, draws, jitter) ==
  IF g.isGameStarted /\ ~g.isGameOver /\ ~g.isPaused
  THEN updateGame(g, p, t, draws, jitter)
  ELSE [g |-> g, p |-> p, timer |-> FALSE]

(* ---------------- the render effect of the PingPong component ------------ *)
Touches(pu, ball) ==
  (pu.x - ball.x) * (pu.x - ball.x) + (pu.y - ball.y) * (pu.y - ball.y)
     <= (powerUpRadius + halfBall) * (powerUpRadius + halfBall)

\* spawnedPowerUps.forEach(powerUp => balls.forEach(ball => collectPowerUp ...)):
\* the first touching ball collects, the later calls find the id gone
RECURSIVE collectTouched(_, _, _, _, _)
collectTouched(p, t, pickups, bs, k) ==
  IF k > Len(pickups)
  THEN p
  ELSE LET hits == {i \in 1..Len(bs) : Touches(pickups[k], bs[i])}
           first == CHOOSE i \in hits : \A j \in hits : i <= j
           p1 == IF hits = {} THEN p ELSE collectPowerUp(p, t, pickups[k].id, bs[first].speedX > 0)
       IN collectTouched(p1, t, pickups, bs, k + 1)

(* ---------------- initial state: the two stores as created ---------------- *)
Init ==
  /\ pingPong = [balls |-> <<>>,
                 ballX |-> centerX, ballY |-> centerY,
                 ballSpeedX |-> 1000 * initialBallSpeed, ballSpeedY |-> 0,
                 playerPaddleY |-> centerY, computerPaddleY |-> centerY,
                 playerScore |-> 0, computerScore |-> 0,
                 isGameStarted |-> FALSE, isGameOver |-> FALSE, isPaused |-> FALSE,
                 winner |-> "none",
                 frameCount |-> 0, lastRandomOffset |-> <<>>,
                 currentLevel |-> 1, computerSpeedMultiplier |-> 100, predictionAccuracy |-> 50]
  /\ powerUps = [activePowerUps |-> <<>>, spawnedPowerUps |-> <<>>,
                 nextSpawnTime |-> 0, isPowerUpSpawningEnabled |-> TRUE]
  /\ now = 0
  /\ pendingResets = 0
  /\ spawnCount = 0

(* ---------------- actions: one per handler ---------------- *)
\* the stores take the result r of a handler; a scheduled resetBall is one more
\* pending timer
Commit(r) ==
  /\ pendingResets + (IF r.timer THEN 1 ELSE 0) <= MaxPending
  /\ r.g.playerScore <= MaxScore /\ r.g.computerScore <= MaxScore
  /\ pingPong' = r.g
  /\ powerUps' = r.p
  /\ pendingResets' = pendingResets + (IF r.timer THEN 1 ELSE 0)

\* requestAnimationFrame(gameLoop): one display frame
GameLoop(draws, jitter) ==
  /\ pingPong.frameCount < MaxFrames
  /\ JitterOk(pingPong, jitter)
  /\ Commit(gameLoop(pingPong, powerUps, now, draws, jitter))
  /\ UNCHANGED <<now, spawnCount>>

\* display frames of one long rally, up to MaxRally
GameLoopLong(draws, jitter) ==
  /\ pingPong.frameCount < MaxRally
  /\ JitterOk(pingPong, jitter)
  /\ Commit(gameLoop(pingPong, powerUps, now, draws, jitter))
  /\ UNCHANGED <<now, spawnCount>>

\* display frames of a whole match, up to MaxMatch
GameLoopMatch(draws, jitter) ==
  /\ pingPong.frameCount < MaxMatch
  /\ JitterOk(pingPong, jitter)
  /\ Commit(gameLoop(pingPong, powerUps, now, draws, jitter))
  /\ UNCHANGED <<now, spawnCount>>

\* display frames that may schedule a resetBall while earlier ones are still
\* pending, up to MaxOverlap timers
CommitOverlap(r) ==
  /\ pendingResets + (IF r.timer THEN 1 ELSE 0) <= MaxOverlap
  /\ r.g.playerScore <= MaxScore /\ r.g.computerScore <= MaxScore
  /\ pingPong' = r.g
  /\ powerUps' = r.p
  /\ pendingResets' = pendingResets + (IF r.timer THEN 1 ELSE 0)

GameLoopOverlap(draws, jitter) ==
  /\ pingPong.frameCount < MaxFrames
  /\ JitterOk(pingPong, jitter)
  /\ CommitOverlap(gameLoop(pingPong, powerUps, now, draws, jitter))
  /\ UNCHANGED <<now, spawnCount>>

StartGame(direction, angle) ==
  /\ pingPong' = resetBall(IF pingPong.isGameOver
                           THEN [pingPong EXCEPT !.isGameStarted = TRUE, !.isGameOver = FALSE]
                           ELSE [pingPong EXCEPT !.isGameStarted = TRUE],
                           direction, angle)
  /\ powerUps' = enablePowerUps(powerUps)
  /\ UNCHANGED <<now, pendingResets, spawnCount>>

\* a restart that keeps the difficulty the match had reached
restartFieldsKeepLevel(g) ==
  [g EXCEPT !.playerScore = 0, !.computerScore = 0,
            !.isGameStarted = TRUE, !.isGameOver = FALSE,
            !.isPaused = FALSE, !.winner = "none",
            !.frameCount = 0, !.lastRandomOffset = <<>>]

\* the set({...}) of restartGame
restartFields(g) ==
  [g EXCEPT !.playerScore = 0, !.computerScore = 0,
            !.isGameStarted = TRUE, !.isGameOver = FALSE,
            !.isPaused = FALSE, !.winner = "none",
            !.currentLevel = 1,
            !.computerSpeedMultiplier = 100,
            !.predictionAccuracy = 50,
            !.frameCount = 0, !.lastRandomOffset = <<>>]

RestartGame(direction, angle) ==
  /\ pingPong' = resetBall(restartFields(pingPong), direction, angle)
  /\ powerUps' = enablePowerUps(disablePowerUps(powerUps))
  /\ UNCHANGED <<now, pendingResets, spawnCount>>

togglePause(g) == [g EXCEPT !.isPaused = ~g.isPaused]

TogglePause ==
  /\ pingPong' = togglePause(pingPong)
  /\ UNCHANGED <<powerUps, now, pendingResets, spawnCount>>

\* scorePoint(player) called on the store
ScorePoint(player) ==
  /\ Commit(scorePoint(pingPong, powerUps, player))
  /\ UNCHANGED <<now, spawnCount>>

\* scorePoint(player) called on after the match is over as well: the player's
\* score runs up to MaxLongScore
CommitLong(r) ==
  /\ pendingResets + (IF r.timer THEN 1 ELSE 0) <= MaxPending
  /\ r.g.playerScore <= MaxLongScore /\ r.g.computerScore <= MaxScore
  /\ pingPong' = r.g
  /\ powerUps' = r.p
  /\ pendingResets' = pendingResets + (IF r.timer THEN 1 ELSE 0)

ScorePointLong(player) ==
  /\ CommitLong(scorePoint(pingPong, powerUps, player))
  /\ UNCHANGED <<now, spawnCount>>

\* the callback of setTimeout(() => get().resetBall(), 1000) runs
ResetBallTimer(direction, angle) ==
  /\ pendingResets > 0
  /\ pendingResets' = pendingResets - 1
  /\ pingPong' = resetBall(pingPong, direction, angle)
  /\ UNCHANGED <<powerUps, now, spawnCount>>

\* the window was resized: initialize() runs again
Initialize ==
  /\ pingPong' = initialize(pingPong)
  /\ UNCHANGED <<powerUps, now, pendingResets, spawnCount>>

UpdatePlayerPaddle(y) ==
  /\ pingPong' = updatePlayerPaddle(pingPong, y)
  /\ UNCHANGED <<powerUps, now, pendingResets, spawnCount>>

LevelUp ==
  /\ pingPong' = levelUp(pingPong)
  /\ UNCHANGED <<powerUps, now, pendingResets, spawnCount>>

SetDifficultyLevel(level) ==
  /\ pingPong' = setDifficultyLevel(pingPong, level)
  /\ UNCHANGED <<powerUps, now, pendingResets, spawnCount>>

AddExtraBalls(draws) ==
  /\ Len(pingPong.balls) <= 1
  /\ pingPong' = addExtraBalls(pingPong, draws)
  /\ UNCHANGED <<powerUps, now, pendingResets, spawnCount>>

RemoveExtraBalls ==
  /\ pingPong' = removeExtraBalls(pingPong)
  /\ UNCHANGED <<powerUps, now, pendingResets, spawnCount>>

\* spawnPowerUp from the 500 ms interval
SpawnPowerUp(selectedType, x, y) ==
  /\ spawnCount < MaxSpawns
  /\ SpawnPositionOk(x, y)
  /\ powerUps' = spawnPowerUp(powerUps, now, selectedType, x, y, spawnCount + 1)
  /\ spawnCount' = IF powerUps' = powerUps THEN spawnCount ELSE spawnCount + 1
  /\ UNCHANGED <<pingPong, now, pendingResets>>

CheckExpiredPowerUps ==
  /\ powerUps' = checkExpiredPowerUps(powerUps, now)
  /\ UNCHANGED <<pingPong, now, pendingResets, spawnCount>>

\* collectPowerUp(id, isPlayerCollecting) called on the store
CollectPowerUp(id, isPlayerCollecting) ==
  /\ powerUps' = collectPowerUp(powerUps, now, id, isPlayerCollecting)
  /\ UNCHANGED <<pingPong, now, pendingResets, spawnCount>>

\* the render effect: balls touching pickups collect them
RenderCollect ==
  /\ Running(pingPong)
  /\ powerUps' = collectTouched(powerUps, now, powerUps.spawnedPowerUps, pingPong.balls, 1)
  /\ UNCHANGED <<pingPong, now, pendingResets, spawnCount>>

\* spawnPowerUp called on the store, up to MaxPickups pickups in a run
SpawnPickup(selectedType, x, y) ==
  /\ spawnCount < MaxPickups
  /\ SpawnPositionOk(x, y)
  /\ powerUps' = spawnPowerUp(powerUps, now, selectedType, x, y, spawnCount + 1)
  /\ spawnCount' = IF powerUps' = powerUps THEN spawnCount ELSE spawnCount + 1
  /\ UNCHANGED <<pingPong, now, pendingResets>>

\* the callback of the component's setInterval(..., 500), which exists only
\* while the match is started, not over and not paused: spawnPowerUp, then
\* checkExpiredPowerUps; spawned is the store state after the spawn attempt
PowerUpIntervalWith(spawned) ==
  /\ spawned # powerUps => spawnCount < MaxPickups
  /\ powerUps' = checkExpiredPowerUps(spawned, now)
  /\ spawnCount' = IF spawned = powerUps THEN spawnCount ELSE spawnCount + 1

PowerUpInterval(selectedType, x, y) ==
  /\ pingPong.isGameStarted /\ ~pingPong.isGameOver /\ ~pingPong.isPaused
  /\ SpawnPositionOk(x, y)
  /\ PowerUpIntervalWith(spawnPowerUp(powerUps, now, selectedType, x, y, spawnCount + 1))
  /\ UNCHANGED <<pingPong, now, pendingResets>>

\* enablePowerUps() called on the store
EnablePowerUps ==
  /\ powerUps' = enablePowerUps(powerUps)
  /\ UNCHANGED <<pingPong, now, pendingResets, spawnCount>>

\* disablePowerUps() called on the store
DisablePowerUps ==
  /\ powerUps' = disablePowerUps(powerUps)
  /\ UNCHANGED <<pingPong, now, pendingResets, spawnCount>>

\* wall-clock time passes, up to MaxClock
Advance(d) ==
  /\ now + d <= MaxClock
  /\ now' = now + d
  /\ UNCHANGED <<pingPong, powerUps, pendingResets, spawnCount>>

\* wall-clock time passes
Tick(d) ==
  /\ now + d <= MaxTime
  /\ now' = now + d
  /\ UNCHANGED <<pingPong, powerUps, pendingResets, spawnCount>>

(* ---------------- inputs: the random draws and the calls' arguments -------- *)
Directions == {1, -1}

LaunchAngles == {0, 2}

PaddleInputs == {-3, 6, 20}

Jitters == {-6, 0}

ExtraDraws == {<<[dir |-> 1, mag |-> 4, vy |-> 2], [dir |-> -1, mag |-> 3, vy |-> -3]>>}

Sides == {"player", "computer"}

Frame == \E j \in Jitters, d \in ExtraDraws : GameLoop(d, j)

Start == \E dir \in Directions, a \in LaunchAngles : StartGame(dir, a)

Restart == \E dir \in Directions, a \in LaunchAngles : RestartGame(dir, a)

TimerFires == \E dir \in Directions, a \in LaunchAngles : ResetBallTimer(dir, a)

PaddleInput == \E y \in PaddleInputs : UpdatePlayerPaddle(y)

(* ---------------- Spec: the match (lifecycle, scoring, frames, timers) ------ *)
Next ==
  \/ Frame
  \/ Start
  \/ Restart
  \/ TogglePause
  \/ \E pl \in Sides : ScorePoint(pl)
  \/ TimerFires
  \/ PaddleInput

Spec == Init /\ [][Next]_vars

(* ---------------- SpecMulti: frames with pickups and extra balls ----------- *)
NextMulti ==
  \/ Frame
  \/ Start
  \/ Restart
  \/ TimerFires
  \/ PaddleInput
  \/ \E d \in ExtraDraws : AddExtraBalls(d)
  \/ RemoveExtraBalls
  \/ SpawnPowerUp("MULTI_BALL", 12, 6)
  \/ RenderCollect
  \/ CheckExpiredPowerUps
  \/ Tick(10)

SpecMulti == Init /\ [][NextMulti]_vars

(* ---------------- SpecApi: the stores' operations without frames ----------- *)
NextApi ==
  \/ \E dir \in Directions : StartGame(dir, 0)
  \/ \E dir \in Directions : RestartGame(dir, 0)
  \/ TogglePause
  \/ \E pl \in Sides : ScorePoint(pl)
  \/ \E dir \in Directions : ResetBallTimer(dir, 0)
  \/ LevelUp
  \/ \E level \in 1..maxLevel : SetDifficultyLevel(level)
  \/ SpawnPowerUp("PADDLE_EXTENDER", 12, 6)
  \/ \E id \in 1..MaxSpawns, byPlayer \in BOOLEAN : CollectPowerUp(id, byPlayer)
  \/ CheckExpiredPowerUps
  \/ Tick(8)

SpecApi == Init /\ [][NextApi]_vars

(* ---------------- SpecPower: the usePowerUps store on its own --------------- *)
\* one pickup type for each target
PickupTypes == {"PADDLE_EXTENDER", "SHRINK_OPPONENT", "SPEED_BOOST", "MULTI_BALL"}

PickupIds == 1..MaxPickups

NextPower ==
  \/ \E type \in PickupTypes : SpawnPickup(type, 12, 6)
  \/ \E id \in PickupIds, byPlayer \in BOOLEAN : CollectPowerUp(id, byPlayer)
  \/ CheckExpiredPowerUps
  \/ EnablePowerUps
  \/ DisablePowerUps
  \/ \E d \in {1, 4} : Advance(d)

SpecPower == Init /\ [][NextPower]_vars

(* ---------------- SpecRally: long rallies with extra balls ------------------ *)
FrameLong == \E j \in Jitters, d \in ExtraDraws : GameLoopLong(d, j)

NextRally ==
  \/ FrameLong
  \/ Start
  \/ PaddleInput
  \/ \E d \in ExtraDraws : AddExtraBalls(d)

SpecRally == Init /\ [][NextRally]_vars

(* ---------------- SpecPaddle: frames under paddle-height effects ------------ *)
PaddleTypes == {"PADDLE_EXTENDER", "SHRINK_OPPONENT"}

NextPaddle ==
  \/ Frame
  \/ \E dir \in Directions : StartGame(dir, 2)
  \/ PaddleInput
  \/ \E type \in PaddleTypes : SpawnPickup(type, 12, 6)
  \/ \E id \in PickupIds, byPlayer \in BOOLEAN : CollectPowerUp(id, byPlayer)
  \/ Advance(spawnInterval)

SpecPaddle == Init /\ [][NextPaddle]_vars

(* ---------------- SpecAi: the computer paddle over frames, levels, resizes -- *)
NextAi ==
  \/ Frame
  \/ Start
  \/ ResetBallTimer(1, 2)
  \/ PaddleInput
  \/ Initialize
  \/ LevelUp

SpecAi == Init /\ [][NextAi]_vars

(* ---------------- SpecScore: runs of scorePoint calls ----------------------- *)
NextScore ==
  \/ \E pl \in Sides : ScorePointLong(pl)
  \/ ResetBallTimer(1, 0)
  \/ RestartGame(-1, 0)

SpecScore == Init /\ [][NextScore]_vars

(* ---------------- SpecLevel: the difficulty level over a match -------------- *)
NextLevel ==
  \/ Frame
  \/ \E dir \in Directions : StartGame(dir, 2)
  \/ RestartGame(1, 2)
  \/ TogglePause
  \/ ScorePoint("player")
  \/ ResetBallTimer(1, 2)
  \/ LevelUp
  \/ \E level \in 1..maxLevel : SetDifficultyLevel(level)

SpecLevel == Init /\ [][NextLevel]_vars

(* ---------------- SpecLive: the deferred reset under a fair timer ---------- *)
\* a timer set by setTimeout(..., 1000) is never cleared and the event loop
\* runs its callback: the callback is not left enabled forever
NextLive ==
  \/ Frame
  \/ \E dir \in Directions : StartGame(dir, 2)
  \/ ScorePoint("computer")
  \/ \E d \in ExtraDraws : AddExtraBalls(d)
  \/ TimerFires

SpecLive == Init /\ [][NextLive]_vars /\ WF_vars(TimerFires)

(* ---------------- SpecMatch: a match whose points come from frames only ---- *)
FrameMatch == \E j \in Jitters, d \in ExtraDraws : GameLoopMatch(d, j)

NextMatch ==
  \/ FrameMatch
  \/ \E dir \in Directions : StartGame(dir, 2)
  \/ \E dir \in Directions : ResetBallTimer(dir, 2)
  \/ TogglePause

SpecMatch == Init /\ [][NextMatch]_vars

(* ---------------- SpecOverlap: frames, restarts and pauses around the timer -- *)
FrameOverlap == \E j \in Jitters, d \in ExtraDraws : GameLoopOverlap(d, j)

NextOverlap ==
  \/ FrameOverlap
  \/ Restart
  \/ TogglePause
  \/ TimerFires

SpecOverlap == Init /\ [][NextOverlap]_vars

(* ---------------- SpecPause: effects over pauses of the match --------------- *)
PauseTypes == {"SPEED_BOOST", "INVISIBILITY", "PADDLE_EXTENDER", "MULTI_BALL"}

NextPause ==
  \/ StartGame(1, 2)
  \/ TogglePause
  \/ \E type \in PauseTypes : PowerUpInterval(type, 12, 6)
  \/ \E id \in PickupIds, byPlayer \in BOOLEAN : CollectPowerUp(id, byPlayer)
  \/ \E d \in {1, 4} : Advance(d)

SpecPause == Init /\ [][NextPause]_vars

(* ---------------- the match lifecycle ---------------- *)
Phase(g) ==
  IF ~g.isGameStarted THEN "ready"
  ELSE IF g.isGameOver THEN "over"
  ELSE IF g.isPaused THEN "paused"
  ELSE "running"

MainBalls(bs) == {i \in 1..Len(bs) : bs[i].isMainBall}

ExtraBalls(bs) == {i \in 1..Len(bs) : ~bs[i].isMainBall}

AtCentreAtRest(ball) ==
  ball.x = centerX /\ ball.y = centerY /\ ball.speedX = 0 /\ ball.speedY = 0

\* a frame has run updateGame: nothing else adds one to frameCount
FrameAdvanced == Running(pingPong) /\ pingPong'.frameCount = pingPong.frameCount + 1

Scored == pingPong'.playerScore + pingPong'.computerScore > pingPong.playerScore + pingPong.computerScore

(* ---------------- C1 ---------------- *)
\* C1: in every state in which the match is running (started, not over, not
\* paused), the states between a scored point and its deferred reset
\* included, balls holds exactly one ball with isMainBall = TRUE.
C1_OneMainBallWhileRunning ==
  Running(pingPong) => Cardinality(MainBalls(pingPong.balls)) = 1

(* ---------------- C2 ---------------- *)
\* C2: a scorePoint call credits one point to its side; the match becomes over
\* exactly at a call that brings that side's score to pointsToWin, with that
\* side as the winner, and a call that leaves the score below pointsToWin
\* changes neither isGameOver nor winner.  From a fresh or restarted match
\* (not over, no winner) the match is therefore over at the first such call.
C2_Step(pl) ==
  LET old == IF pl = "player" THEN pingPong.playerScore ELSE pingPong.computerScore
      new == IF pl = "player" THEN pingPong'.playerScore ELSE pingPong'.computerScore
      other == IF pl = "player" THEN pingPong'.computerScore = pingPong.computerScore
               ELSE pingPong'.playerScore = pingPong.playerScore
  IN /\ new = old + 1
     /\ other
     /\ new >= pointsToWin => pingPong'.isGameOver /\ pingPong'.winner = pl
     /\ new < pointsToWin => /\ pingPong'.isGameOver = pingPong.isGameOver
                             /\ pingPong'.winner = pingPong.winner

C2_OverAtPointsToWin == [][\A pl \in Sides : ScorePoint(pl) => C2_Step(pl)]_vars

\* five player points and none for the computer: the player has won
C2_Witness ==
  /\ pingPong.playerScore = pointsToWin
  /\ pingPong.computerScore = 0
  /\ pingPong.isGameOver
  /\ pingPong.winner = "player"

(* ---------------- C3 ---------------- *)
\* C3: the lifecycle moves only along ready -> running, running <-> paused,
\* running -> over and over -> running; the match never becomes over while
\* ready or paused and never becomes paused while ready or over.
AllowedTransitions ==
  {<<"ready", "running">>, <<"running", "paused">>, <<"paused", "running">>,
   <<"running", "over">>, <<"over", "running">>}

C3_Step ==
  /\ Phase(pingPong') # Phase(pingPong) => <<Phase(pingPong), Phase(pingPong')>> \in AllowedTransitions
  /\ pingPong'.isGameOver /\ ~pingPong.isGameOver => Running(pingPong)
  /\ pingPong'.isPaused /\ ~pingPong.isPaused => Running(pingPong)

C3_Lifecycle == [][C3_Step]_vars

(* ---------------- C4 ---------------- *)
\* C4: togglePause flips isPaused only while the match is running or paused;
\* while the match is ready or over it leaves every field unchanged.
C4_TogglePauseGuarded ==
  [][TogglePause =>
       IF pingPong.isGameStarted /\ ~pingPong.isGameOver
       THEN pingPong' = [pingPong EXCEPT !.isPaused = ~pingPong.isPaused]
       ELSE pingPong' = pingPong]_vars

(* ---------------- C5 ---------------- *)
\* C5: after a scorePoint that does not end the match the ball (the legacy
\* fields and the main ball of balls, if it holds one) is at the centre with
\* zero velocity, and no frame scores while a deferred reset is pending.
C5_Step ==
  /\ Scored /\ ~pingPong'.isGameOver =>
       /\ pingPong'.ballX = centerX /\ pingPong'.ballY = centerY
       /\ pingPong'.ballSpeedX = 0 /\ pingPong'.ballSpeedY = 0
       /\ \A i \in MainBalls(pingPong'.balls) : AtCentreAtRest(pingPong'.balls[i])
  /\ FrameAdvanced /\ pendingResets > 0 => ~Scored

C5_FrozenUntilReset == [][C5_Step]_vars

(* ---------------- C6 ---------------- *)
\* C6: a deferred reset that fires when the ball has already been reset and
\* launched again by a restart in the delay window (scores back at 0/0 with
\* the reset still pending) changes nothing: the ball is neither moved back to
\* the centre nor launched anew.
C6_LateResetNoOp ==
  [][TimerFires /\ pingPong.playerScore = 0 /\ pingPong.computerScore = 0
       /\ HasMainBall(pingPong.balls) /\ pingPong.ballSpeedX # 0
       /\ (\A i \in MainBalls(pingPong.balls) : pingPong.balls[i].speedX # 0)
       => pingPong' = pingPong]_vars

(* ---------------- C7 ---------------- *)
\* C7: while MULTI_BALL is active for GAME, after each frame of a running
\* match balls holds the main ball and exactly 2 extra balls.
C7_TwoExtrasWhileActive ==
  [][FrameAdvanced /\ isActive(powerUps, now, "MULTI_BALL", "GAME") /\ ~Scored
       => /\ Cardinality(MainBalls(pingPong'.balls)) = 1
          /\ Cardinality(ExtraBalls(pingPong'.balls)) = 2]_vars

(* ---------------- C8 ---------------- *)
\* C8: in the first frame after the MULTI_BALL effect has expired, every
\* non-main ball is removed: balls holds the main ball only.
MultiBallExpired(p, t) ==
  /\ \E i \in 1..Len(p.activePowerUps) :
        p.activePowerUps[i].type = "MULTI_BALL" /\ p.activePowerUps[i].endTime <= t
  /\ ~isActive(p, t, "MULTI_BALL", "GAME")

C8_ExtrasRemovedAfterLapse ==
  [][FrameAdvanced /\ MultiBallExpired(powerUps, now) /\ ~Scored
       => /\ ExtraBalls(pingPong'.balls) = {}
          /\ Cardinality(MainBalls(pingPong'.balls)) = 1]_vars

(* ---------------- C9 ---------------- *)
\* C9: in a frame of a running match the main ball crossing the left edge
\* credits exactly one point to the computer, crossing the right edge exactly
\* one point to the player; without such a crossing no score changes; and a
\* non-main ball that crosses an edge is gone from balls.
CrossedLeft(ball) == 2 * ball.x - ballSize <= 0

CrossedRight(ball) == 2 * ball.x + ballSize >= 2 * canvasWidth

C9_Step(moved) ==
  LET mainLeft == \E i \in MainBalls(moved) : CrossedLeft(moved[i])
      mainRight == \E i \in MainBalls(moved) : ~CrossedLeft(moved[i]) /\ CrossedRight(moved[i])
      staying == {i \in ExtraBalls(moved) : ~CrossedLeft(moved[i]) /\ ~CrossedRight(moved[i])}
  IN /\ pingPong'.computerScore = pingPong.computerScore + (IF mainLeft THEN 1 ELSE 0)
     /\ pingPong'.playerScore = pingPong.playerScore + (IF mainRight THEN 1 ELSE 0)
     /\ \A i \in 1..Len(pingPong'.balls) :
          ~CrossedLeft(pingPong'.balls[i]) /\ ~CrossedRight(pingPong'.balls[i])
     /\ Cardinality(ExtraBalls(pingPong'.balls)) = Cardinality(staying)

C9_EdgeCrossings ==
  [][FrameAdvanced => C9_Step(updatedBalls(pingPong, powerUps, now))]_vars

\* a frame has credited the computer for the main ball, and of the two extra
\* balls one has left the field without a point
C9_Witness ==
  /\ pingPong.computerScore = 1
  /\ pingPong.playerScore = 0
  /\ pendingResets = 1
  /\ Len(pingPong.balls) = 1
  /\ ~pingPong.balls[1].isMainBall

(* ---------------- C10 ---------------- *)
\* C10: restartGame, from any state, leaves scores 0/0, level 1 with the
\* initial computer speed multiplier and prediction accuracy, no winner, a
\* running unpaused match, and no spawned pickups and no active effects.
C10_Post ==
  /\ pingPong'.playerScore = 0 /\ pingPong'.computerScore = 0
  /\ pingPong'.currentLevel = 1
  /\ pingPong'.computerSpeedMultiplier = 100
  /\ pingPong'.predictionAccuracy = 50
  /\ pingPong'.winner = "none"
  /\ pingPong'.isGameStarted /\ ~pingPong'.isGameOver /\ ~pingPong'.isPaused
  /\ powerUps'.spawnedPowerUps = <<>>
  /\ powerUps'.activePowerUps = <<>>

C10_RestartResets == [][(\E dir \in Directions, a \in LaunchAngles : RestartGame(dir, a)) => C10_Post]_vars

\* a restart has acted on a match that had points, a raised level, a pickup
\* collected and a reset pending: nothing of it is left but the timer
C10_Witness ==
  /\ pendingResets > 0
  /\ spawnCount > 0
  /\ Running(pingPong)
  /\ pingPong.playerScore = 0 /\ pingPong.computerScore = 0
  /\ pingPong.currentLevel = 1
  /\ powerUps.spawnedPowerUps = <<>> /\ powerUps.activePowerUps = <<>>
  /\ powerUps.nextSpawnTime > 0

(* ---------------- C11 ---------------- *)
\* C11: startGame from ready or from over leaves a running match (started, not
\* over, not paused), the power-ups enabled, and balls holding a single main
\* ball at the field centre whose horizontal velocity is not zero and whose
\* direction is within 22.5 degrees of horizontal (the vertical speed is at
\* most half the horizontal one).
C11_Post ==
  /\ Running(pingPong')
  /\ powerUps'.isPowerUpSpawningEnabled
  /\ Len(pingPong'.balls) = 1
  /\ pingPong'.balls[1].isMainBall
  /\ pingPong'.balls[1].x = centerX /\ pingPong'.balls[1].y = centerY
  /\ pingPong'.balls[1].speedX # 0
  /\ 2 * Abs(pingPong'.balls[1].speedY) <= Abs(pingPong'.balls[1].speedX)

C11_StartRuns ==
  [][Start /\ (~pingPong.isGameStarted \/ pingPong.isGameOver) => C11_Post]_vars

(* ---------------- C12 ---------------- *)
LevelDrops == pingPong'.currentLevel < pingPong.currentLevel

AnyRestart == \E dir \in Directions, a \in LaunchAngles : RestartGame(dir, a)

AnySetDifficultyLevel == \E level \in 1..maxLevel : SetDifficultyLevel(level)

\* C12 as claimed: in a started match currentLevel decreases in no step but a
\* restart (scorePoint, levelUp, setDifficultyLevel, togglePause, startGame and
\* frames never lower it).
C12_LevelNeverDrops == [][pingPong.isGameStarted /\ LevelDrops => AnyRestart]_vars

\* C12 as amended: currentLevel decreases only in a restartGame step or in a
\* setDifficultyLevel step (which assigns the level it is given); scorePoint,
\* levelUp, togglePause, startGame and frames never lower it.
C12_LevelDropsOnlyBySetOrRestart == [][LevelDrops => AnyRestart \/ AnySetDifficultyLevel]_vars

\* a frame has credited the player's third point and raised the level to 2
C12_Witness ==
  /\ pingPong.frameCount > 0
  /\ pingPong.balls = <<>>
  /\ pendingResets = 1
  /\ pingPong.playerScore = 3
  /\ pingPong.currentLevel = 2
  /\ pingPong.computerSpeedMultiplier = 125

(* ---------------- C13 ---------------- *)
\* C13: starting at level 1, under scorePoint calls the level is 1 below 3
\* player points, 2 from 3, 3 from 6, 4 from 9 (it changes at no other score)
\* and it never exceeds 5, however many further multiples of 3 are reached.
C13_LevelByPlayerScore ==
  /\ pingPong.playerScore < 3 => pingPong.currentLevel = 1
  /\ pingPong.playerScore \in 3..5 => pingPong.currentLevel = 2
  /\ pingPong.playerScore \in 6..8 => pingPong.currentLevel = 3
  /\ pingPong.playerScore \in 9..11 => pingPong.currentLevel = 4
  /\ pingPong.playerScore >= 12 => pingPong.currentLevel = 5
  /\ pingPong.currentLevel <= 5

\* the player's score has passed 12 and reached a further multiple of 3
C13_Witness ==
  /\ pingPong.playerScore = 15
  /\ pingPong.currentLevel = 5
  /\ pingPong.computerSpeedMultiplier = 200

C15_OneEntryPerPair ==
  \A i, j \in 1..Len(powerUps.activePowerUps) :
    /\ powerUps.activePowerUps[i].type = powerUps.activePowerUps[j].type
    /\ powerUps.activePowerUps[i].target = powerUps.activePowerUps[j].target
    => i = j

\* every pickup of the run was collected and one type is in force for both
\* sides at once
C15_Witness ==
  /\ spawnCount = MaxPickups
  /\ powerUps.spawnedPowerUps = <<>>
  /\ \E i, j \in 1..Len(powerUps.activePowerUps) :
       /\ powerUps.activePowerUps[i].type = powerUps.activePowerUps[j].type
       /\ powerUps.activePowerUps[i].target = "PLAYER"
       /\ powerUps.activePowerUps[j].target = "COMPUTER"

(* ---------------- C16 ---------------- *)
\* the target the effect is to have: the configured one for the player; for
\* the computer PLAYER and COMPUTER change places
C16_Expected(target, isPlayerCollecting) ==
  CASE isPlayerCollecting -> target
    [] ~isPlayerCollecting /\ target = "PLAYER" -> "COMPUTER"
    [] ~isPlayerCollecting /\ target = "COMPUTER" -> "PLAYER"
    [] ~isPlayerCollecting /\ target = "BALL" -> "BALL"
    [] ~isPlayerCollecting /\ target = "GAME" -> "GAME"

\* the last active effect is the one just installed for the pickup id
C16_Installed(id, isPlayerCollecting) ==
  LET type == SpawnedById(powerUps, id).type
      last == powerUps'.activePowerUps[Len(powerUps'.activePowerUps)]
  IN /\ powerUps'.activePowerUps # <<>>
     /\ last.type = type
     /\ last.target = C16_Expected(powerUpConfigs[type].target, isPlayerCollecting)

\* C16: the effect installed by a collection has the configured target when
\* the player collects; when the computer collects, PLAYER becomes COMPUTER,
\* COMPUTER becomes PLAYER, and BALL and GAME stay.
C16_EffectiveTarget ==
  [][\A id \in PickupIds, byPlayer \in BOOLEAN :
       CollectPowerUp(id, byPlayer) /\ HasSpawned(powerUps, id)
         => C16_Installed(id, byPlayer)]_vars

\* both swaps and an unswapped ball effect are in force together
C16_Witness ==
  /\ isActive(powerUps, now, "PADDLE_EXTENDER", "COMPUTER")
  /\ isActive(powerUps, now, "SHRINK_OPPONENT", "PLAYER")
  /\ isActive(powerUps, now, "SPEED_BOOST", "BALL")

(* ---------------- C17 ---------------- *)
\* C17: collectPowerUp with an id that is not among the spawned pickups
\* returns null and leaves the store as it is, for every such id, collector
\* and reachable state.
C17_UnknownIdNoOp ==
  \A id \in PickupIds, byPlayer \in BOOLEAN :
    ~HasSpawned(powerUps, id)
      => /\ collectPowerUp(powerUps, now, id, byPlayer) = powerUps
         /\ collectPowerUpReturn(powerUps, id) = "null"

\* pickup 1 is gone (collected or cleared), pickup 3 was never spawned, and
\* there is a pickup on the field and an effect in force to disturb
C17_Witness ==
  /\ spawnCount = 2
  /\ ~HasSpawned(powerUps, 1)
  /\ HasSpawned(powerUps, 2)
  /\ powerUps.activePowerUps # <<>>

(* ---------------- C18 ---------------- *)
C18_Post(id, isPlayerCollecting) ==
  LET type == SpawnedById(powerUps, id).type
      target == effectiveTarget(powerUpConfigs[type].target, isPlayerCollecting)
      IsPair(a) == a.type = type /\ a.target = target
      IsOtherPair(a) == ~IsPair(a)
      IsOtherPickup(s) == s.id # id
  IN /\ powerUps'.spawnedPowerUps = SelectSeq(powerUps.spawnedPowerUps, IsOtherPickup)
     /\ Len(powerUps'.spawnedPowerUps) = Len(powerUps.spawnedPowerUps) - 1
     /\ SelectSeq(powerUps'.activePowerUps, IsPair)
          = <<[type |-> type, endTime |-> now + powerUpConfigs[type].duration, target |-> target]>>
     /\ SelectSeq(powerUps'.activePowerUps, IsOtherPair)
          = SelectSeq(powerUps.activePowerUps, IsOtherPair)

\* C18: a successful collectPowerUp removes exactly the pickup id from the
\* spawned pickups, leaves one effect for (type, effective target) whose
\* expiry is now + the configured duration, whatever expiry the pair had
\* before, and leaves the effects of all other pairs as they were.
C18_CollectInstalls ==
  [][\A id \in PickupIds, byPlayer \in BOOLEAN :
       CollectPowerUp(id, byPlayer) /\ HasSpawned(powerUps, id)
         => C18_Post(id, byPlayer)]_vars

\* the second pickup of a run was collected the moment it could first be
\* there, and the one effect in force expires a full duration from now
C18_Witness ==
  /\ spawnCount = 2
  /\ powerUps.spawnedPowerUps = <<>>
  /\ powerUps.isPowerUpSpawningEnabled
  /\ Len(powerUps.activePowerUps) = 1
  /\ powerUps.activePowerUps[1].type = "MULTI_BALL"
  /\ powerUps.activePowerUps[1].endTime = now + powerUpConfigs["MULTI_BALL"].duration
  /\ now = spawnInterval + 1

(* ---------------- C19 ---------------- *)
\* C19: there are never more than 2 spawned pickups on the field.
C19_AtMostMaxPowerUps == Len(powerUps.spawnedPowerUps) <= 2

\* the field is full and nothing but the capacity test holds the next spawn back
C19_Witness ==
  /\ Len(powerUps.spawnedPowerUps) = 2
  /\ powerUps.isPowerUpSpawningEnabled
  /\ now >= powerUps.nextSpawnTime
  /\ spawnCount < MaxPickups

(* ---------------- C20 ---------------- *)
C20_Blocked ==
  \/ ~powerUps.isPowerUpSpawningEnabled
  \/ Len(powerUps.spawnedPowerUps) >= 2
  \/ now < powerUps.nextSpawnTime

\* what a spawnPowerUp call makes of the current state
C20_Call(type) ==
  LET q == spawnPowerUp(powerUps, now, type, 12, 6, spawnCount + 1)
  IN IF C20_Blocked
     THEN q = powerUps
     ELSE /\ Len(q.spawnedPowerUps) = Len(powerUps.spawnedPowerUps) + 1
          /\ SubSeq(q.spawnedPowerUps, 1, Len(powerUps.spawnedPowerUps)) = powerUps.spawnedPowerUps
          /\ q.spawnedPowerUps[Len(q.spawnedPowerUps)].type = type
          /\ q.nextSpawnTime = now + spawnInterval
          /\ q.activePowerUps = powerUps.activePowerUps
          /\ q.isPowerUpSpawningEnabled

\* a step in which a pickup was spawned
C20_Spawned == spawnCount' = spawnCount + 1

\* C20: spawnPowerUp changes nothing when spawning is disabled, when 2 pickups
\* are on the field or when now < nextSpawnTime; otherwise it adds exactly one
\* pickup and sets nextSpawnTime to now + spawnInterval. nextSpawnTime changes
\* in no other step and no spawn happens before it, so two successful spawns
\* are at least spawnInterval apart.
C20_SpawnGuardsAndSchedule ==
  /\ [](\A type \in PickupTypes : C20_Call(type))
  /\ [][/\ C20_Spawned => now >= powerUps.nextSpawnTime
                          /\ powerUps'.nextSpawnTime = now + spawnInterval
        /\ powerUps'.nextSpawnTime # powerUps.nextSpawnTime => C20_Spawned]_vars

\* the second spawn of a run came exactly spawnInterval after the first, and
\* a third is held back by the time test alone
C20_Witness ==
  /\ spawnCount = 2
  /\ powerUps.nextSpawnTime = 2 * spawnInterval
  /\ powerUps.isPowerUpSpawningEnabled
  /\ Len(powerUps.spawnedPowerUps) < 2
  /\ now < powerUps.nextSpawnTime

(* ---------------- C21 ---------------- *)
\* C21: in every reachable state a checkExpiredPowerUps call removes exactly
\* the effects whose expiry is not later than now (the others stay, in order,
\* and nothing else changes), and a second call at the same time changes
\* nothing more.
C21_SweepExactAndIdempotent ==
  LET q == checkExpiredPowerUps(powerUps, now)
      NotDue(a) == ~(a.endTime <= now)
  IN /\ q.activePowerUps = SelectSeq(powerUps.activePowerUps, NotDue)
     /\ q.spawnedPowerUps = powerUps.spawnedPowerUps
     /\ q.nextSpawnTime = powerUps.nextSpawnTime
     /\ q.isPowerUpSpawningEnabled = powerUps.isPowerUpSpawningEnabled
     /\ checkExpiredPowerUps(q, now) = q

\* one effect expires at this very moment while another is still running
C21_Witness ==
  \E i, j \in 1..Len(powerUps.activePowerUps) :
    /\ powerUps.activePowerUps[i].endTime = now
    /\ powerUps.activePowerUps[j].endTime > now

(* ---------------- C22 ---------------- *)
\* the ball at its new position, after the wall test, as the paddle tests of
\* this frame see it
C22_Arriving(ball) ==
  wallCollision(moveBall(ball, getBallSpeedMultiplier(powerUps, now)))

C22_HitsPlayer(ball) ==
  HitsPlayerPaddle(pingPong, getPlayerPaddleHeightMultiplier(powerUps, now), C22_Arriving(ball))

C22_HitsComputer(ball) ==
  HitsComputerPaddle(pingPong, getComputerPaddleHeightMultiplier(powerUps, now), C22_Arriving(ball))

\* a ball that the frame keeps: it met a paddle, or it arrives on the field
C22_Kept(ball) == C22_HitsPlayer(ball) \/ C22_HitsComputer(ball) \/ OnField(C22_Arriving(ball))

\* the balls the frame keeps, as they were before it; the k-th of them is the
\* k-th stored ball after it
C22_KeptBalls == SelectSeq(stateBalls(pingPong), C22_Kept)

\* C22: in every frame, a ball (main or extra) that hits the player paddle is
\* stored at the paddle's outer edge with a horizontal velocity > 0, and one
\* that hits the computer paddle at that paddle's outer edge with a horizontal
\* velocity < 0.
C22_BounceAwayFromPaddle ==
  [][FrameAdvanced =>
       /\ Len(pingPong'.balls) = Len(C22_KeptBalls)
       /\ \A k \in 1..Len(C22_KeptBalls) :
            /\ pingPong'.balls[k].id = C22_KeptBalls[k].id
            /\ C22_HitsPlayer(C22_KeptBalls[k])
                 => /\ pingPong'.balls[k].x = paddleWidth + halfBall
                    /\ pingPong'.balls[k].speedX > 0
            /\ C22_HitsComputer(C22_KeptBalls[k])
                 => /\ pingPong'.balls[k].x = canvasWidth - paddleWidth - halfBall
                    /\ pingPong'.balls[k].speedX < 0]_vars

\* a main ball and an extra ball are both on their way back from a paddle's
\* outer edge
C22_Witness ==
  \E k, m \in 1..Len(pingPong.balls) :
    /\ pingPong.balls[k].isMainBall
    /\ \/ pingPong.balls[k].x = canvasWidth - paddleWidth - halfBall /\ pingPong.balls[k].speedX < 0
       \/ pingPong.balls[k].x = paddleWidth + halfBall /\ pingPong.balls[k].speedX > 0
    /\ ~pingPong.balls[m].isMainBall
    /\ \/ pingPong.balls[m].x = canvasWidth - paddleWidth - halfBall /\ pingPong.balls[m].speedX < 0
       \/ pingPong.balls[m].x = paddleWidth + halfBall /\ pingPong.balls[m].speedX > 0

(* ---------------- C23 ---------------- *)
\* a ball's scalar speed, in thousandths of a pixel per frame
C23_Speed(ball) == Sqrt(ball.speedX * ball.speedX + ball.speedY * ball.speedY)

\* what a frame does to the speed of a ball that stays in play (before and
\* after the frame): after a paddle collision it is the speed before plus
\* ballSpeedIncrement (to 0.005, the error of the cos/sin table); otherwise the
\* horizontal velocity is the same and the vertical one has kept its size
C23_Law(before, after) ==
  IF C22_HitsPlayer(before) \/ C22_HitsComputer(before)
  THEN Abs(C23_Speed(after) - (C23_Speed(before) + 1000 * ballSpeedIncrement)) <= 5
  ELSE /\ after.speedX = before.speedX
       /\ Abs(after.speedY) = Abs(before.speedY)

\* C23: in every frame, a ball that meets a paddle leaves with its scalar speed
\* raised by ballSpeedIncrement, and a ball that meets no paddle keeps its
\* scalar speed, wall reflection or not; so the speed never decreases from one
\* paddle collision to the next.
C23_SpeedIncrementLaw ==
  [][FrameAdvanced =>
       /\ Len(pingPong'.balls) = Len(C22_KeptBalls)
       /\ \A k \in 1..Len(C22_KeptBalls) : C23_Law(C22_KeptBalls[k], pingPong'.balls[k])]_vars

\* the main ball has met a paddle twice since its launch
C23_Witness ==
  \E k \in 1..Len(pingPong.balls) :
    /\ pingPong.balls[k].isMainBall
    /\ C23_Speed(pingPong.balls[k]) >= 1000 * (initialBallSpeed + 2 * ballSpeedIncrement) - 10

(* ---------------- C24 ---------------- *)
\* the normalized intersection of a ball arriving at height newY on a paddle
\* centred at paddleY of effective height paddleHeight * mult / 100 lies in
\* [-1, 1], and the bounce angle (units of pi/16) within 45 degrees
C24_InRange(newY, paddleY, mult) ==
  /\ Abs(200 * (paddleY - newY)) <= paddleHeight * mult
  /\ BounceAngle(newY, paddleY, mult) \in -4..4

\* C24: in every frame, for every ball that meets a paddle, whatever
\* paddle-height effects are active for that side, the normalized intersection
\* offset taken over the effective paddle height lies in [-1, 1] and the
\* bounce angle within 45 degrees.
C24_NormalizedIntersectionInRange ==
  [][FrameAdvanced =>
       \A i \in 1..Len(stateBalls(pingPong)) :
         /\ C22_HitsPlayer(stateBalls(pingPong)[i])
              => C24_InRange(C22_Arriving(stateBalls(pingPong)[i]).y, pingPong.playerPaddleY,
                             getPlayerPaddleHeightMultiplier(powerUps, now))
         /\ C22_HitsComputer(stateBalls(pingPong)[i])
              => C24_InRange(C22_Arriving(stateBalls(pingPong)[i]).y, pingPong.computerPaddleY,
                             getComputerPaddleHeightMultiplier(powerUps, now))]_vars

\* the ball is about to meet the player paddle while the paddle is both
\* extended and shrunk
C24_Witness ==
  /\ Running(pingPong)
  /\ pingPong.frameCount < MaxFrames
  /\ getPlayerPaddleHeightMultiplier(powerUps, now) = 90
  /\ \E i \in 1..Len(pingPong.balls) :
       /\ C22_HitsPlayer(pingPong.balls[i])
       /\ C22_Arriving(pingPong.balls[i]).y # pingPong.playerPaddleY

(* ---------------- C25 ---------------- *)
\* C25: in every state where the match is not running (ready, paused or over),
\* a display frame leaves both stores exactly as they are (balls, paddles,
\* scores and frame counter included) and schedules nothing, whatever the
\* frame's random draws.
C25_FrameOnlyWhileRunning ==
  ~(pingPong.isGameStarted /\ ~pingPong.isGameOver /\ ~pingPong.isPaused)
    => \A j \in Jitters, d \in ExtraDraws :
         gameLoop(pingPong, powerUps, now, d, j) = [g |-> pingPong, p |-> powerUps, timer |-> FALSE]

\* a paused match with a moving main ball, which a frame would move
C25_Witness ==
  /\ pingPong.isGameStarted /\ ~pingPong.isGameOver /\ pingPong.isPaused
  /\ pingPong.frameCount \in 1..(MaxFrames - 1)
  /\ HasMainBall(pingPong.balls)
  /\ FindMainBall(pingPong.balls).speedX # 0
  /\ pingPong.playerScore > 0

(* ---------------- C26 ---------------- *)
\* positions from well above the field to well below it
C26_Inputs == (0 - 2 * canvasHeight)..(3 * canvasHeight)

C26_InBounds(y) == y >= paddleHeight \div 2 /\ y <= canvasHeight - paddleHeight \div 2

\* C26: in every reachable state the player paddle's centre is within
\* [paddleHeight/2, canvasHeight - paddleHeight/2], and updatePlayerPaddle(y)
\* for any position y, on the field or off it, yields a state (it never
\* rejects) whose paddle centre is within these bounds: y itself when y is
\* within them, the nearer bound otherwise; nothing else changes.
C26_PaddleClamped ==
  /\ C26_InBounds(pingPong.playerPaddleY)
  /\ \A y \in C26_Inputs :
       /\ C26_InBounds(updatePlayerPaddle(pingPong, y).playerPaddleY)
       /\ C26_InBounds(y) => updatePlayerPaddle(pingPong, y).playerPaddleY = y
       /\ y < paddleHeight \div 2 => updatePlayerPaddle(pingPong, y).playerPaddleY = paddleHeight \div 2
       /\ y > canvasHeight - paddleHeight \div 2
            => updatePlayerPaddle(pingPong, y).playerPaddleY = canvasHeight - paddleHeight \div 2
       /\ [updatePlayerPaddle(pingPong, y) EXCEPT !.playerPaddleY = pingPong.playerPaddleY] = pingPong

\* the paddle was sent above the field during play and stands at the top bound
C26_Witness ==
  /\ Running(pingPong)
  /\ pingPong.frameCount > 0
  /\ pingPong.playerPaddleY = paddleHeight \div 2

(* ---------------- C27 ---------------- *)
\* the frame computes a projection: the test the code makes before it
C27_Projects == pingPong.ballSpeedX > 0

\* the horizontal velocity the projection divides by: newBallSpeedX
C27_Divisor == legacyBall(pingPong, updatedBalls(pingPong, powerUps, now)).speedX

\* C27: in every frame in which the computer paddle's projection is computed
\* the horizontal velocity it divides by is not zero, and in every frame in
\* which that velocity is zero the projection is skipped and the paddle holds.
C27_ProjectionGuarded ==
  [][FrameAdvanced =>
       /\ C27_Projects => C27_Divisor # 0
       /\ C27_Divisor = 0 => ~C27_Projects /\ pingPong'.computerPaddleY = pingPong.computerPaddleY]_vars

(* ---------------- C28 ---------------- *)
\* C28: in every reachable state, levelUp below level 5 yields the state with
\* the level raised by 1, the computer speed multiplier by 0.25 and the
\* prediction accuracy by 0.1 but to no more than 0.95, and at level 5 it
\* yields the same state; scores, lifecycle flags and all other fields are as
\* before in both cases.
C28_LevelUpEffect ==
  IF pingPong.currentLevel >= 5
  THEN levelUp(pingPong) = pingPong
  ELSE /\ levelUp(pingPong).currentLevel = pingPong.currentLevel + 1
       /\ levelUp(pingPong).computerSpeedMultiplier = pingPong.computerSpeedMultiplier + 25
       /\ levelUp(pingPong).predictionAccuracy
            = (IF pingPong.predictionAccuracy + 10 > 95 THEN 95 ELSE pingPong.predictionAccuracy + 10)
       /\ [levelUp(pingPong) EXCEPT !.currentLevel = pingPong.currentLevel,
                                    !.computerSpeedMultiplier = pingPong.computerSpeedMultiplier,
                                    !.predictionAccuracy = pingPong.predictionAccuracy] = pingPong

\* four levelUp calls took a paused match with points on both sides from
\* level 1 to level 5, the last one into the accuracy cap
C28_Witness ==
  /\ pingPong.currentLevel = 5
  /\ pingPong.computerSpeedMultiplier = 200
  /\ pingPong.predictionAccuracy = 95
  /\ pingPong.isGameStarted /\ pingPong.isPaused /\ ~pingPong.isGameOver
  /\ pingPong.playerScore = 1 /\ pingPong.computerScore = 1

(* ---------------- C29 ---------------- *)
\* the target the frame steers the computer paddle to, for the legacy ball nb
\* of the frame and a draw of the random offset: the clamped projection when
\* the ball's stored horizontal velocity is positive, else the paddle's place
C29_TargetOf(nb, jitter) ==
  IF pingPong.ballSpeedX > 0
  THEN computerTarget(pingPong, nb.x, nb.y, nb.speedX, nb.speedY, frameOffset(pingPong, jitter)[1])
  ELSE [nan |-> FALSE, y |-> pingPong.computerPaddleY]

C29_Target(jitter) == C29_TargetOf(legacyBall(pingPong, updatedBalls(pingPong, powerUps, now)), jitter)

\* the move from y to y2 respects the target: not past it, and none at all
\* within 2 pixels of it (or without a target)
C29_Respects(target, y, y2) ==
  IF target.nan
  THEN y2 = y
  ELSE /\ (y <= y2 /\ y2 <= target.y) \/ (target.y <= y2 /\ y2 <= y)
       /\ Abs(target.y - y) <= 2 => y2 = y

\* C29: in every frame advance the computer paddle moves by no more than
\* computerBaseSpeed x computerSpeedMultiplier, ends within
\* [paddleHeight/2, canvasHeight - paddleHeight/2], ends between where it was
\* and its target, and stays where it was when the target is within 2 pixels.
C29_ComputerPaddleMove ==
  [][FrameAdvanced =>
       /\ 100 * Abs(pingPong'.computerPaddleY - pingPong.computerPaddleY)
            <= computerBaseSpeed * pingPong.computerSpeedMultiplier
       /\ pingPong'.computerPaddleY >= paddleHeight \div 2
       /\ pingPong'.computerPaddleY <= canvasHeight - paddleHeight \div 2
       /\ \E jitter \in Jitters :
            C29_Respects(C29_Target(jitter), pingPong.computerPaddleY, pingPong'.computerPaddleY)]_vars

\* the paddle has been driven from the centre to the top bound of its range
C29_Witness ==
  /\ Running(pingPong)
  /\ pingPong.frameCount >= 2
  /\ pingPong.computerPaddleY = paddleHeight \div 2

(* ---------------- C30 ---------------- *)
\* what a ball reset leaves: one ball, the main ball, at the field centre with
\* a horizontal velocity that is not zero
C30_OneMainBallAtCentre ==
  /\ Len(pingPong.balls) = 1
  /\ pingPong.balls[1].isMainBall
  /\ pingPong.balls[1].x = centerX /\ pingPong.balls[1].y = centerY
  /\ pingPong.balls[1].speedX # 0

\* C30: every scoring event that leaves the match going schedules a reset, and
\* with a timer that fires each scheduled reset eventually runs; the step in
\* which it runs leaves exactly one main ball at the field centre with
\* non-zero horizontal velocity.
C30_ResetFollowsScore ==
  /\ [][pendingResets' < pendingResets => C30_OneMainBallAtCentre']_vars
  /\ \A n \in 1..MaxPending : (pendingResets = n) ~> (pendingResets < n)

\* a point was scored, the match goes on, its reset has run and no frame has
\* moved the new ball yet
C30_Witness ==
  /\ pendingResets = 0
  /\ pingPong.playerScore + pingPong.computerScore >= 1
  /\ Running(pingPong)
  /\ pingPong.frameCount >= 1
  /\ C30_OneMainBallAtCentre
  /\ pingPong.ballSpeedX = pingPong.balls[1].speedX

(* ---------------- C31 ---------------- *)
\* C31: in every reachable state the winner is recorded (not none) if and only
\* if the match is over, also after startGame from the over state.
C31_WinnerIffOver == (pingPong.winner # "none") <=> pingPong.isGameOver

(* ---------------- C32 ---------------- *)
\* C32: in every reachable state of a match whose points are scored by frame
\* advances only, the match is over if and only if the player's or the
\* computer's score is at least pointsToWin (5), and neither score is above 5.
C32_OverIffWon ==
  /\ pingPong.isGameOver <=> (pingPong.playerScore >= 5 \/ pingPong.computerScore >= 5)
  /\ pingPong.playerScore <= 5
  /\ pingPong.computerScore <= 5

(* ---------------- C33 ---------------- *)
\* a stored ball at or beyond the top bound moves downward, one at or beyond
\* the bottom bound moves upward
C33_HeadsBack(ball) ==
  /\ ball.y - halfBall <= 0 => ball.speedY > 0
  /\ ball.y + halfBall >= canvasHeight => ball.speedY < 0

\* C33: after every frame advance every stored ball that is at or beyond the
\* top bound has a downward vertical velocity and every one at or beyond the
\* bottom bound an upward one.
C33_WallSendsBack ==
  [][FrameAdvanced => \A i \in 1..Len(pingPong'.balls) : C33_HeadsBack(pingPong'.balls[i])]_vars

(* ---------------- C34 ---------------- *)
\* C34: in every reachable state of a match driven by frame advances,
\* restartGame, togglePause and the timer, at most one deferred ball reset is
\* pending: no point is scored while the reset of the previous one is pending.
C34_OneResetPending == pendingResets <= 1

(* ---------------- C35 ---------------- *)
\* an entry for (type, target) whose expiry is strictly later than now
C35_Live(type, target) ==
  \E i \in 1..Len(powerUps.activePowerUps) :
     /\ powerUps.activePowerUps[i].type = type
     /\ powerUps.activePowerUps[i].target = target
     /\ powerUps.activePowerUps[i].endTime > now

C35_NotExpired(a) == a.endTime > now

\* the store without its expired entries
C35_Swept == [powerUps EXCEPT !.activePowerUps = SelectSeq(@, C35_NotExpired)]

\* the queries answer as they would after a sweep
C35_Queries ==
  /\ \A type \in PowerUpType, target \in PowerUpTarget :
       isActive(powerUps, now, type, target) <=> C35_Live(type, target)
  /\ getBallSpeedMultiplier(powerUps, now) = getBallSpeedMultiplier(C35_Swept, now)
  /\ getPlayerPaddleHeightMultiplier(powerUps, now) = getPlayerPaddleHeightMultiplier(C35_Swept, now)
  /\ getComputerPaddleHeightMultiplier(powerUps, now) = getComputerPaddleHeightMultiplier(C35_Swept, now)
  /\ getBallOpacity(powerUps, now) = getBallOpacity(C35_Swept, now)
  /\ NestedSet(pingPong, powerUps, now) = NestedSet(pingPong, C35_Swept, now)

\* an entry of the next state was there before, expiry included, or was
\* installed in this step with the expiry now + duration of its type
C35_ExpiryFixed ==
  \A i \in 1..Len(powerUps'.activePowerUps) :
     \/ \E j \in 1..Len(powerUps.activePowerUps) : powerUps.activePowerUps[j] = powerUps'.activePowerUps[i]
     \/ powerUps'.activePowerUps[i].endTime = now + powerUpConfigs[powerUps'.activePowerUps[i].type].duration

\* C35: isActive(type, target) is true exactly when an entry for (type,
\* target) has an expiry strictly later than now; the ball-speed,
\* paddle-height, opacity and multi-ball queries answer as if the expired
\* entries had been swept, also while the match is paused and no sweep runs;
\* and no step, a pause or resume included, moves an entry's expiry.
C35_ExpiredNeverCounts == []C35_Queries /\ [][C35_ExpiryFixed]_vars

\* the match is paused and a speed boost that has run out is still in the
\* list, while the ball-speed multiplier is back at 1
C35_Witness ==
  /\ pingPong.isGameStarted /\ pingPong.isPaused
  /\ \E i \in 1..Len(powerUps.activePowerUps) :
       /\ powerUps.activePowerUps[i].type = "SPEED_BOOST"
       /\ powerUps.activePowerUps[i].endTime <= now
  /\ getBallSpeedMultiplier(powerUps, now) = 100

(* ---------------- C36 ---------------- *)
\* C36: in every reachable state in which balls holds a main ball, the legacy
\* fields ballX, ballY, ballSpeedX and ballSpeedY equal the main ball's x, y,
\* speedX and speedY.
C36_LegacyMirrorsMain ==
  HasMainBall(pingPong.balls) =>
     /\ pingPong.ballX = FindMainBall(pingPong.balls).x
     /\ pingPong.ballY = FindMainBall(pingPong.balls).y
     /\ pingPong.ballSpeedX = FindMainBall(pingPong.balls).speedX
     /\ pingPong.ballSpeedY = FindMainBall(pingPong.balls).speedY

(* ---------------- C37 ---------------- *)
\* the match after n calls of levelUp
RECURSIVE C37_LevelledUp(_, _)
C37_LevelledUp(g, n) == IF n = 0 THEN g ELSE C37_LevelledUp(levelUp(g), n - 1)

\* levelling up a fresh match L - 1 times gives level L with the pair that
\* setDifficultyLevel(L) assigns
C37_SamePair(byLevelUp, preset, L) ==
  /\ byLevelUp.currentLevel = L
  /\ byLevelUp.computerSpeedMultiplier = preset.computerSpeedMultiplier
  /\ byLevelUp.predictionAccuracy = preset.predictionAccuracy

\* C37: for each level L in 1..5, levelling up from a fresh level-1 match (the
\* match as restartGame leaves it) to level L gives the computer speed
\* multiplier and prediction accuracy that setDifficultyLevel(L) assigns.
C37_LevelUpMatchesPreset ==
  \A L \in 1..5 :
     C37_SamePair(C37_LevelledUp(restartFields(pingPong), L - 1), setDifficultyLevel(pingPong, L), L)

====
